---------------------------- MODULE Spec2Model ----------------------------
(***************************************************************************)
(* Trade Tracker (src/app.py): a Streamlit script.  Every user interaction *)
(* reruns the whole script against the session state; one action of this   *)
(* module is one interaction followed by one complete run of the script.   *)
(*                                                                         *)
(* Money amounts are integers in hundredths (cents); the prices the user   *)
(* types are whole units, so sell * fee / 100 is exact.  ROI values are    *)
(* exact fractions [num, den]; a division by zero is the Python exception. *)
(***************************************************************************)
EXTENDS Integers, Sequences, FiniteSets, TLC

VARIABLES
    loaded_trades,   \* st.session_state["loaded_trades"], or NoValue when the key is absent
    trades,          \* st.session_state["trades"]
    num_w,           \* the "How many trades" number_input: [def, val], or NoValue when not rendered
    inputs,          \* the keyed widgets buy_i, sell_i, fee_i, color_i: key -> [def, val]
    mode,            \* the "View Mode" radio of the Overview tab
    uploaded,        \* the file held by the file_uploader, or NoValue
    json_data,       \* the snapshot offered for download by this run, or NoValue
    totals,          \* the figures of the Totals Overview computed by this run, or NoValue
    fold,            \* the Portfolio Logic loop of this run, one record per iteration
    status,          \* "ok", or the exception that ended this run of the script
    message,         \* what load_trades reported in this run: "none", "success", "error"
    user,            \* history: [edits, files], the input edits made so far (counted up to
                     \* MaxEditsWithFiles + 1) and whether a file of Files was uploaded
    rt               \* history: the snapshot the user downloaded ([phase, file, trades,
                     \* totals]) and how far its restoration has got, or NoValue

vars == <<loaded_trades, trades, num_w, inputs, mode, uploaded, json_data,
          totals, fold, status, message, user, rt>>

-----------------------------------------------------------------------------
(* Bounds of the model *)

\* the largest trade count the user selects (the widget allows up to NumTradesMax)
MaxN == 2

\* input edits in a session in which the user uploads one of Files
MaxEditsWithFiles == 1

(* Program constants *)

NumTradesMin == 1
NumTradesMax == 50
PriceMin == 0

\* Python's None / an absent session key, and a present value
NoValue == [some |-> FALSE]
Some(x) == [some |-> TRUE, v |-> x]

\* the options of the Color selectbox, in order
Colors == <<"default", "red", "blue">>

Modes == {"All Trades", "Split by Color"}

\* what the user types: prices in cents (whole units), fees in percent
Prices == {0, 100}
Fees == {0, 1}

-----------------------------------------------------------------------------
(* Arithmetic *)

Abs(x) == IF x < 0 THEN -x ELSE x

RECURSIVE GCD(_, _)
GCD(a, b) == IF b = 0 THEN a ELSE GCD(b, a % b)

\* the outcome of a division by zero (Python raises ZeroDivisionError)
DivError == [num |-> 0, den |-> 0]

\* n / d as an exact fraction in lowest terms
Frac(n, d) ==
    IF d = 0 THEN DivError
    ELSE LET g == GCD(Abs(n), Abs(d))
             s == IF d < 0 THEN -1 ELSE 1
         IN  [num |-> (s * n) \div g, den |-> (s * d) \div g]

Zero == [num |-> 0, den |-> 1]

Range(s) == {s[k] : k \in DOMAIN s}

Reverse(s) == [k \in 1..Len(s) |-> s[Len(s) + 1 - k]]

EmptyMap == [k \in {} |-> 0]

-----------------------------------------------------------------------------
(* Streamlit widgets.  A widget keeps the value the user gave it for as    *)
(* long as it is rendered with the same default; rendered with another    *)
(* default (or for the first time) it starts from that default.           *)

Widget(w, key, default) ==
    IF key \in DOMAIN w /\ w[key].def = default
    THEN w[key]
    ELSE [def |-> default, val |-> default]

\* st.number_input refuses a default outside [min_value, max_value]
NumberInputCheck(value, min_value, max_value) ==
    IF value < min_value THEN "StreamlitValueBelowMinError"
    ELSE IF value > max_value THEN "StreamlitValueAboveMaxError"
    ELSE "ok"

-----------------------------------------------------------------------------
(* The trade form: for i in reversed(range(1, num_trades + 1))             *)

\* next((t for t in prev_trades if t["Trade"] == i), None), scanning from entry j
RECURSIVE Lookup(_, _, _)
Lookup(prev_trades, i, j) ==
    IF j > Len(prev_trades) THEN [exc |-> "ok", prev |-> NoValue]
    ELSE IF "Trade" \notin DOMAIN prev_trades[j] THEN [exc |-> "KeyError", prev |-> NoValue]
    ELSE IF prev_trades[j]["Trade"] = i THEN [exc |-> "ok", prev |-> Some(prev_trades[j])]
    ELSE Lookup(prev_trades, i, j + 1)

\* mutant: the entry at position i of the list, whatever its "Trade"
PrevOfPosition(prev_trades, i) ==
    IF i <= Len(prev_trades)
    THEN [exc |-> "ok", prev |-> Some(prev_trades[i])]
    ELSE [exc |-> "ok", prev |-> NoValue]

PrevOf(prev_trades, i) == Lookup(prev_trades, i, 1)

\* value=prev[field] if prev else 0.0, as number_input(min_value=0.0) accepts it
NumberDefault(prev, field) ==
    IF ~prev.some THEN [exc |-> "ok", v |-> 0]
    ELSE IF field \notin DOMAIN prev.v THEN [exc |-> "KeyError", v |-> 0]
    ELSE IF prev.v[field] < PriceMin THEN [exc |-> "StreamlitValueBelowMinError", v |-> 0]
    ELSE [exc |-> "ok", v |-> prev.v[field]]

\* index=(["default", "red", "blue"].index(prev["Color"]) if prev else 0), 0-based
ColorIndex(prev) ==
    IF ~prev.some THEN [exc |-> "ok", v |-> 0]
    ELSE IF "Color" \notin DOMAIN prev.v THEN [exc |-> "KeyError", v |-> 0]
    ELSE IF prev.v["Color"] \notin Range(Colors) THEN [exc |-> "ValueError", v |-> 0]
    ELSE [exc |-> "ok", v |-> (CHOOSE k \in DOMAIN Colors : Colors[k] = prev.v["Color"]) - 1]

Profit(buy_price, sell_price, fee) ==
    (sell_price - buy_price) - ((sell_price * fee) \div 100)

\* mutant: the division without its guard
RoiUnguarded(profit, buy_price) == Frac(profit * 100, buy_price)

Roi(profit, buy_price) ==
    IF buy_price > 0 THEN Frac(profit * 100, buy_price) ELSE Zero

TotalReturn(sell_price, fee) == sell_price - ((sell_price * fee) \div 100)

\* the dict appended to trades
Row(i, buy_price, sell_price, fee, profit, roi, total_return, color) ==
    [Trade |-> i, Buy |-> buy_price, Sell |-> sell_price, Profit |-> profit, Color |-> color]
    @@ ("Fee (%)" :> fee) @@ ("ROI (%)" :> roi) @@ ("Total Return" :> total_return)

\* the widgets of one trade, in the order the script renders them
Fields == <<"buy", "sell", "fee", "color">>

\* the defaults of the four widgets of a trade pre-filled from prev: n is the
\* number of widgets rendered before the first exception, exc that exception
Defaults(prev) ==
    IF NumberDefault(prev, "Buy").exc # "ok"
    THEN [exc |-> NumberDefault(prev, "Buy").exc, n |-> 0]
    ELSE IF NumberDefault(prev, "Sell").exc # "ok"
    THEN [exc |-> NumberDefault(prev, "Sell").exc, n |-> 1,
          buy |-> NumberDefault(prev, "Buy").v]
    ELSE IF NumberDefault(prev, "Fee (%)").exc # "ok"
    THEN [exc |-> NumberDefault(prev, "Fee (%)").exc, n |-> 2,
          buy |-> NumberDefault(prev, "Buy").v, sell |-> NumberDefault(prev, "Sell").v]
    ELSE IF ColorIndex(prev).exc # "ok"
    THEN [exc |-> ColorIndex(prev).exc, n |-> 3,
          buy |-> NumberDefault(prev, "Buy").v, sell |-> NumberDefault(prev, "Sell").v,
          fee |-> NumberDefault(prev, "Fee (%)").v]
    ELSE [exc |-> "ok", n |-> 4,
          buy |-> NumberDefault(prev, "Buy").v, sell |-> NumberDefault(prev, "Sell").v,
          fee |-> NumberDefault(prev, "Fee (%)").v, color |-> Colors[ColorIndex(prev).v + 1]]

\* prev = next(...) and the defaults it gives
TradeDefaults(lk) ==
    IF lk.exc # "ok" THEN [exc |-> lk.exc, n |-> 0] ELSE Defaults(lk.prev)

\* the widgets of trade i rendered from defaults d, over the widget states iw
Rendered(iw, i, d) ==
    [exc |-> d.exc,
     w |-> [key \in {<<Fields[j], i>> : j \in 1..d.n} |-> Widget(iw, key, d[key[1]])]]

RenderTrade(iw, prev_trades, i) == Rendered(iw, i, TradeDefaults(PrevOf(prev_trades, i)))

\* mutant: the fee is not charged on trades tagged blue
CalculationsByColor(i, buy_price, sell_price, fee, color) ==
    Row(i, buy_price, sell_price, fee,
        Profit(buy_price, sell_price, IF color = "blue" THEN 0 ELSE fee),
        Roi(Profit(buy_price, sell_price, IF color = "blue" THEN 0 ELSE fee), buy_price),
        TotalReturn(sell_price, fee), color)

\* the calculations of one pass of the loop, on the values the widgets returned
Calculations(i, buy_price, sell_price, fee, color) ==
    Row(i, buy_price, sell_price, fee,
        Profit(buy_price, sell_price, fee),
        Roi(Profit(buy_price, sell_price, fee), buy_price),
        TotalReturn(sell_price, fee), color)

Appended(acc, r, row) ==
    IF row["ROI (%)"] = DivError
    THEN [acc EXCEPT !.exc = "ZeroDivisionError", !.w = @ @@ r.w]
    ELSE [acc EXCEPT !.trades = Append(@, row),
                     !.w = @ @@ r.w,
                     !.total_profit = @ + row["Profit"],
                     !.total_investment = @ + row["Buy"]]

\* one pass of the loop, for trade i
LoopBody(acc, i, r) ==
    IF r.exc # "ok" THEN [acc EXCEPT !.exc = r.exc, !.w = @ @@ r.w]
    ELSE Appended(acc, r,
                  Calculations(i, r.w[<<"buy", i>>].val, r.w[<<"sell", i>>].val,
                               r.w[<<"fee", i>>].val, r.w[<<"color", i>>].val))

RECURSIVE TradeLoop(_, _, _, _)
TradeLoop(prev_trades, iw, i, acc) ==
    IF i < 1 \/ acc.exc # "ok" THEN acc
    ELSE TradeLoop(prev_trades, iw, i - 1,
                   LoopBody(acc, i, RenderTrade(iw, prev_trades, i)))

TradeForm(prev_trades, iw, num_trades) ==
    TradeLoop(prev_trades, iw, num_trades,
        [exc |-> "ok", num_w |-> NoValue, trades |-> <<>>, w |-> EmptyMap,
         total_profit |-> 0, total_investment |-> 0])

-----------------------------------------------------------------------------
(* Portfolio Logic: for t in reversed(trades)                              *)

NetResult(buy, sell, fee) == (sell - buy) - ((sell * fee) \div 100)

\* mutant: the whole buy price counted as added capital
AddedCapitalWholeBuy(buy, prev_portfolio) ==
    IF buy > prev_portfolio THEN buy ELSE 0

AddedCapital(buy, prev_portfolio) ==
    IF buy > prev_portfolio THEN buy - prev_portfolio ELSE 0

\* mutant: the added capital left out of the new portfolio value
StepValueNoInjection(prev_portfolio, buy, net_result, added_capital) ==
    prev_portfolio - buy + net_result

StepValue(prev_portfolio, buy, net_result, added_capital) ==
    prev_portfolio - buy + net_result + added_capital

FoldStart ==
    [portfolio_value |-> 0, prev_portfolio |-> 0, total_added_capital |-> 0,
     initialized |-> FALSE]

\* one iteration on trade t from the loop variables st; the record keeps the
\* loop variables after the iteration and what the iteration read and computed
\* (prev_in: prev_portfolio as the iteration's formulas read it)
FoldStep(st, t) ==
    LET buy == t["Buy"]
        sell == t["Sell"]
        fee == t["Fee (%)"]
        net_result == NetResult(buy, sell, fee)
    IN  IF ~st.initialized
        THEN [Trade |-> t["Trade"], buy |-> buy, net_result |-> net_result,
              seed |-> TRUE, prev_in |-> buy, added_capital |-> 0,
              portfolio_value |-> buy + net_result,
              prev_portfolio |-> buy + net_result,
              total_added_capital |-> st.total_added_capital,
              initialized |-> TRUE]
        ELSE LET added_capital == AddedCapital(buy, st.prev_portfolio)
                 portfolio_value ==
                     StepValue(st.prev_portfolio, buy, net_result, added_capital)
             IN  [Trade |-> t["Trade"], buy |-> buy, net_result |-> net_result,
                  seed |-> FALSE, prev_in |-> st.prev_portfolio,
                  added_capital |-> added_capital,
                  portfolio_value |-> portfolio_value,
                  prev_portfolio |-> portfolio_value,
                  total_added_capital |-> st.total_added_capital + added_capital,
                  initialized |-> TRUE]

\* mutant: the loop over the list as it was built, not reversed
FoldOrderAsBuilt(ts) == ts

\* the order in which the loop visits the list
FoldOrder(ts) == Reverse(ts)

RECURSIVE FoldFrom(_, _, _, _)
FoldFrom(ts, k, st, trace) ==
    IF k > Len(ts) THEN trace
    ELSE LET s == FoldStep(st, ts[k])
         IN  FoldFrom(ts, k + 1, s, Append(trace, s))

PortfolioLogic(ts) == FoldFrom(FoldOrder(ts), 1, FoldStart, <<>>)

\* the loop variables when the loop has ended
FoldEnd(trace) == IF trace = <<>> THEN FoldStart ELSE trace[Len(trace)]

\* mutant: the baseline taken from the first entry of the list
EffectiveInvestedFirst(ts, total_added_capital) ==
    (IF ts # <<>> THEN ts[1]["Buy"] ELSE 0) + total_added_capital

EffectiveInvested(ts, total_added_capital) ==
    (IF ts # <<>> THEN ts[Len(ts)]["Buy"] ELSE 0) + total_added_capital

TotalRoi(portfolio_value, effective_invested) ==
    IF effective_invested > 0
    THEN Frac((portfolio_value - effective_invested) * 100, effective_invested)
    ELSE Zero

-----------------------------------------------------------------------------
(* Snapshot files *)

\* a file whose content is the JSON text of data, and a file that is no JSON
JsonFile(data) == [kind |-> "json", data |-> data]
Malformed == [kind |-> "text"]

\* json.dumps(trades, indent=4): every dict of the list with all its keys
json_dumps(ts) == JsonFile([k \in 1..Len(ts) |-> [key \in DOMAIN ts[k] |-> ts[k][key]]])

\* json.load(uploaded_file)
json_load(f) ==
    IF f.kind = "json" THEN [exc |-> "ok", data |-> f.data]
    ELSE [exc |-> "JSONDecodeError", data |-> <<>>]

\* load_trades: what it leaves in the session, and what it tells the user
load_trades(uploaded_file, ss_loaded) ==
    LET r == json_load(uploaded_file)
    IN  IF r.exc = "ok"
        THEN [loaded_trades |-> Some(r.data), message |-> "success"]
        ELSE [loaded_trades |-> ss_loaded, message |-> "error"]

\* a snapshot entry as the program writes it
EntryOf(i, buy, sell, fee, color, profit) ==
    Row(i, buy, sell, fee, profit, Roi(profit, buy), TotalReturn(sell, fee), color)

Entry(i, buy, sell, fee, color) == EntryOf(i, buy, sell, fee, color, Profit(buy, sell, fee))

Without(e, keys) == [k \in (DOMAIN e) \ keys |-> e[k]]

\* the files the user has at hand besides the snapshots saved in the session
ExampleFile == JsonFile(<<Entry(2, 10000, 15000, 0, "red"), Entry(1, 20000, 0, 0, "default")>>)
EmptyFile == JsonFile(<<>>)
TooManyFile == JsonFile([i \in 1..(NumTradesMax + 1) |-> Entry(i, 0, 0, 0, "default")])
NoTradeFile == JsonFile(<<Without(Entry(1, 100, 100, 0, "red"), {"Trade"})>>)
NoSellFile == JsonFile(<<Without(Entry(1, 100, 100, 0, "red"), {"Sell", "Color"})>>)
NegativeFile == JsonFile(<<Entry(1, -100, 100, 0, "blue")>>)
BadColorFile == JsonFile(<<Entry(1, 100, 100, 0, "green")>>)

Files == {Malformed, ExampleFile, EmptyFile, TooManyFile, NoTradeFile, NoSellFile,
          NegativeFile, BadColorFile}

-----------------------------------------------------------------------------
(* One run of the script *)

\* the run ended by an uncaught exception: nothing after it is executed
Crashed(exc, ss_loaded, ss_trades, nw, iw) ==
    [status |-> exc, loaded_trades |-> ss_loaded, trades |-> ss_trades,
     num_w |-> nw, inputs |-> iw, mode |-> "All Trades", uploaded |-> NoValue,
     json_data |-> NoValue, totals |-> NoValue, fold |-> <<>>, message |-> "none"]

\* num_trades = st.number_input(..., value=num_trades, ...)
NumTradesWidget(nw, dflt) ==
    IF nw.some /\ nw.v.def = dflt THEN nw.v ELSE [def |-> dflt, val |-> dflt]

\* the left column: the trade count, then the trade form
FormFor(prev_trades, iw, numw) ==
    [TradeForm(prev_trades, iw, numw.val) EXCEPT !.num_w = Some(numw)]

LeftColumn(prev_trades, dflt, nw, iw) ==
    IF NumberInputCheck(dflt, NumTradesMin, NumTradesMax) # "ok"
    THEN [exc |-> NumberInputCheck(dflt, NumTradesMin, NumTradesMax),
          num_w |-> NoValue, w |-> EmptyMap]
    ELSE FormFor(prev_trades, iw, NumTradesWidget(nw, dflt))

\* the Totals Overview: the fold and the figures shown
Metrics(form, trace, effective_invested) ==
    [fold |-> trace,
     total_profit |-> form.total_profit,
     total_investment |-> form.total_investment,
     portfolio_value |-> FoldEnd(trace).portfolio_value,
     total_added_capital |-> FoldEnd(trace).total_added_capital,
     effective_invested |-> effective_invested,
     total_roi |-> TotalRoi(FoldEnd(trace).portfolio_value, effective_invested)]

MetricsOf(form, trace) ==
    Metrics(form, trace, EffectiveInvested(form.trades, FoldEnd(trace).total_added_capital))

RightColumn(form) == MetricsOf(form, PortfolioLogic(form.trades))

\* from the metrics to the end of the Trade Tracker tab
Completed(ss_loaded, md, btn, up, form, m) ==
    IF m.total_roi = DivError
    THEN Crashed("ZeroDivisionError", ss_loaded, form.trades, form.num_w, form.w)
    ELSE [status |-> "ok",
          loaded_trades |-> IF up.some THEN load_trades(up.v, ss_loaded).loaded_trades
                            ELSE ss_loaded,
          trades |-> form.trades,
          num_w |-> form.num_w,
          inputs |-> form.w,
          mode |-> md,
          uploaded |-> up,
          json_data |-> IF btn THEN Some(json_dumps(form.trades)) ELSE NoValue,
          totals |-> Some([f \in (DOMAIN m) \ {"fold"} |-> m[f]]),
          fold |-> m.fold,
          message |-> IF up.some THEN load_trades(up.v, ss_loaded).message ELSE "none"]

Outcome(ss_loaded, ss_trades, md, btn, up, form) ==
    IF form.exc # "ok"
    THEN Crashed(form.exc, ss_loaded, ss_trades, form.num_w, form.w)
    ELSE Completed(ss_loaded, md, btn, up, form, RightColumn(form))

\* the script from top to bottom: ss_loaded and ss_trades are the session keys,
\* nw / iw / md / up the widget states the browser sent, btn the Save button
Script(ss_loaded, ss_trades, nw, iw, md, btn, up) ==
    Outcome(ss_loaded, ss_trades, md, btn, up,
            IF ss_loaded.some
            THEN LeftColumn(ss_loaded.v, Len(ss_loaded.v), nw, iw)
            ELSE LeftColumn(<<>>, 1, nw, iw))

-----------------------------------------------------------------------------
(* The Overview tab *)

RECURSIVE SortByTrade(_)
SortByTrade(ts) ==
    IF ts = <<>> THEN <<>>
    ELSE LET k == CHOOSE a \in DOMAIN ts : \A b \in DOMAIN ts : ts[a]["Trade"] <= ts[b]["Trade"]
         IN  <<ts[k]>> \o SortByTrade(SubSeq(ts, 1, k - 1) \o SubSeq(ts, k + 1, Len(ts)))

IsRed(r) == r["Color"] = "red"
IsBlue(r) == r["Color"] = "blue"

\* mutant: every trade that is not blue taken as red
NotBlue(r) == r["Color"] # "blue"
not_blue_df(df) == SelectSeq(df, NotBlue)

red_df(df) == SelectSeq(df, IsRed)
blue_df(df) == SelectSeq(df, IsBlue)

\* the tables the Overview tab shows in this state, each with the tag it is shown for
Tables ==
    IF status # "ok" \/ trades = <<>> THEN <<>>
    ELSE LET df == SortByTrade(trades)
         IN  IF mode = "All Trades"
             THEN <<[tag |-> "all", rows |-> df]>>
             ELSE <<[tag |-> "red", rows |-> red_df(df)],
                    [tag |-> "blue", rows |-> blue_df(df)]>>

-----------------------------------------------------------------------------
(* The session *)

Run(nw, iw, md, btn, up) ==
    \E r \in {Script(loaded_trades, trades, nw, iw, md, btn, up)} :
        /\ loaded_trades' = r.loaded_trades
        /\ trades' = r.trades
        /\ num_w' = r.num_w
        /\ inputs' = r.inputs
        /\ mode' = r.mode
        /\ uploaded' = r.uploaded
        /\ json_data' = r.json_data
        /\ totals' = r.totals
        /\ fold' = r.fold
        /\ status' = r.status
        /\ message' = r.message

\* a new session: the first run of the script
Init ==
    \E r \in {Script(NoValue, <<>>, NoValue, EmptyMap, "All Trades", FALSE, NoValue)} :
        /\ loaded_trades = r.loaded_trades
        /\ trades = r.trades
        /\ num_w = r.num_w
        /\ inputs = r.inputs
        /\ mode = r.mode
        /\ uploaded = r.uploaded
        /\ json_data = r.json_data
        /\ totals = r.totals
        /\ fold = r.fold
        /\ status = r.status
        /\ message = r.message
        /\ user = [edits |-> 0, files |-> FALSE]
        /\ rt = NoValue

\* a snapshot of this program is being replayed: it was uploaded, and the
\* script has run on it or is about to
Restoring == rt.some /\ rt.v.phase \in {"loaded", "rerun"}

\* the page as the form is filled in: no download on offer, the Overview on
\* "All Trades", no downloaded snapshot followed.  The script reads neither the
\* view mode nor the download, and the history rt is no state of the program,
\* so every value of the inputs is reached from here.
Plain == mode = "All Trades" /\ ~json_data.some /\ ~rt.some

CanEdit ==
    /\ Plain
    /\ user.files => user.edits < MaxEditsWithFiles

Edited ==
    /\ user' = [user EXCEPT !.edits = IF @ > MaxEditsWithFiles THEN @ ELSE @ + 1]
    /\ rt' = rt

\* a run of the script on the page as it is
Passed ==
    /\ user' = user
    /\ rt' = IF Restoring THEN Some([rt.v EXCEPT !.phase = "rerun"]) ELSE rt

\* the user reruns the page without touching anything
Rerun ==
    /\ Run(num_w, inputs, mode, FALSE, uploaded)
    /\ Passed

SetNumTrades(n) ==
    /\ CanEdit
    /\ num_w.some
    /\ n # num_w.v.val
    /\ Run(Some([num_w.v EXCEPT !.val = n]), inputs, mode, FALSE, uploaded)
    /\ Edited

EditInput(key, value) ==
    /\ CanEdit
    /\ key \in DOMAIN inputs
    /\ value # inputs[key].val
    /\ Run(num_w, [inputs EXCEPT ![key].val = value], mode, FALSE, uploaded)
    /\ Edited

EditBuy(i, value) == EditInput(<<"buy", i>>, value)
EditSell(i, value) == EditInput(<<"sell", i>>, value)
EditFee(i, value) == EditInput(<<"fee", i>>, value)
EditColor(i, value) == EditInput(<<"color", i>>, value)

\* the radio is on the page only when the Overview tab was rendered with trades
SetMode(m) ==
    /\ status = "ok"
    /\ trades # <<>>
    /\ ~json_data.some
    /\ ~rt.some
    /\ m # mode
    /\ Run(num_w, inputs, m, FALSE, uploaded)
    /\ Passed

\* the Save Trades button: this run offers the snapshot for download
SaveTrades ==
    /\ status = "ok"
    /\ mode = "All Trades"
    /\ ~rt.some
    /\ Run(num_w, inputs, mode, TRUE, uploaded)
    /\ Passed

\* the Download JSON button: the user keeps the snapshot on offer, and the
\* click reruns the script.  From here the session is followed through the
\* restoration of that snapshot only: Rerun, NewSession, UploadSaved.
Download ==
    /\ json_data.some
    /\ Run(num_w, inputs, mode, FALSE, uploaded)
    /\ user' = user
    /\ rt' = Some([phase |-> "saved", file |-> json_data.v,
                   trades |-> trades, totals |-> totals])

\* the user puts file f in the uploader
Upload(f) ==
    /\ status = "ok"
    /\ ~rt.some
    /\ user.edits <= MaxEditsWithFiles
    /\ Run(num_w, inputs, mode, FALSE, Some(f))
    /\ user' = [user EXCEPT !.files = TRUE]
    /\ rt' = rt

\* the user uploads the snapshot they downloaded
UploadSaved ==
    /\ status = "ok"
    /\ rt.some
    /\ rt.v.phase = "saved"
    /\ Run(num_w, inputs, mode, FALSE, Some(rt.v.file))
    /\ user' = user
    /\ rt' = Some([rt.v EXCEPT !.phase = "loaded"])

\* the user opens the page anew, the downloaded snapshot at hand: a new
\* session, with no session state and no widget state
NewSession ==
    /\ rt.some
    /\ rt.v.phase = "saved"
    /\ \E r \in {Script(NoValue, <<>>, NoValue, EmptyMap, "All Trades", FALSE, NoValue)} :
           /\ loaded_trades' = r.loaded_trades
           /\ trades' = r.trades
           /\ num_w' = r.num_w
           /\ inputs' = r.inputs
           /\ mode' = r.mode
           /\ uploaded' = r.uploaded
           /\ json_data' = r.json_data
           /\ totals' = r.totals
           /\ fold' = r.fold
           /\ status' = r.status
           /\ message' = r.message
    /\ user' = user
    /\ rt' = rt

Next ==
    \/ Rerun
    \/ \E n \in NumTradesMin..MaxN : SetNumTrades(n)
    \/ \E i \in 1..MaxN, v \in Prices : EditBuy(i, v)
    \/ \E i \in 1..MaxN, v \in Prices : EditSell(i, v)
    \/ \E i \in 1..MaxN, v \in Fees : EditFee(i, v)
    \/ \E i \in 1..MaxN, c \in Range(Colors) : EditColor(i, c)
    \/ \E m \in Modes : SetMode(m)
    \/ SaveTrades
    \/ Download
    \/ \E f \in Files : Upload(f)
    \/ UploadSaved
    \/ NewSession

Spec == Init /\ [][Next]_vars

-----------------------------------------------------------------------------
(* Properties.  They are stated on the state a run of the script leaves:   *)
(* the trade list, the trace of the Portfolio Logic loop and the figures   *)
(* of the Totals Overview.                                                 *)

\* the entry of trade i in the trade list
TradeOf(i) == trades[CHOOSE k \in DOMAIN trades : trades[k]["Trade"] = i]

\* (sell - buy) - sell * fee / 100 of an entry
NetOf(t) == (t["Sell"] - t["Buy"]) - ((t["Sell"] * t["Fee (%)"]) \div 100)

Max(a, b) == IF a >= b THEN a ELSE b

HasInputs(t, buy, sell, fee) == t["Buy"] = buy /\ t["Sell"] = sell /\ t["Fee (%)"] = fee

\* trade#2 (buy=100, sell=150, fee=0) and trade#1 (buy=200, sell=0, fee=0)
IsExample ==
    /\ status = "ok"
    /\ Len(trades) = 2
    /\ HasInputs(TradeOf(2), 10000, 15000, 0)
    /\ HasInputs(TradeOf(1), 20000, 0, 0)

\* the loop seeds on trade i: prev_portfolio = its buy, portfolio_value = buy + net
SeedsOn(i) ==
    /\ fold[1].seed
    /\ fold[1].Trade = i
    /\ fold[1].prev_in = TradeOf(i)["Buy"]
    /\ fold[1].portfolio_value = TradeOf(i)["Buy"] + NetOf(TradeOf(i))

\* C1 (as stated): with N >= 2 trades the fold visits the trades in descending
\* index order, trade N seeds it, and for the example it ends with
\* totalAddedCapital = 50 and portfolioValue = -200.
C1_DescendingFold ==
    (status = "ok" /\ Len(trades) >= 2) =>
        /\ Len(fold) = Len(trades)
        /\ \A k \in DOMAIN fold : fold[k].Trade = Len(trades) + 1 - k
        /\ SeedsOn(Len(trades))
        /\ IsExample => /\ totals.v.total_added_capital = 5000
                        /\ totals.v.portfolio_value = -20000

\* C1 (amended): with N >= 2 trades the fold visits the trades in ascending
\* index order, trade 1 seeds it and trades 2, ..., N are folded in afterwards,
\* and for the example it ends with totalAddedCapital = 100 and portfolioValue = 50.
C1_AscendingFold ==
    (status = "ok" /\ Len(trades) >= 2) =>
        /\ Len(fold) = Len(trades)
        /\ \A k \in DOMAIN fold : fold[k].Trade = k
        /\ SeedsOn(1)
        /\ IsExample => /\ totals.v.total_added_capital = 10000
                        /\ totals.v.portfolio_value = 5000

\* the example's two trades have been folded
C1_ExampleFolded == IsExample /\ Len(fold) = 2 /\ totals.v.portfolio_value = 5000

\* C2: in every step after the seed step, prevPortfolio is the portfolioValue of
\* the step before; if buy > prevPortfolio then addedCapital = buy - prevPortfolio
\* and totalAddedCapital grows by it, otherwise addedCapital = 0 and
\* totalAddedCapital is unchanged; portfolioValue = prevPortfolio - buy +
\* netResult + addedCapital with netResult = (sell - buy) - sell * fee / 100.
\* For a single trade portfolioValue = buy + netResult and totalAddedCapital = 0.
C2_FoldSteps ==
    status = "ok" =>
        /\ Len(fold) = Len(trades)
        /\ totals.v.portfolio_value = fold[Len(fold)].portfolio_value
        /\ totals.v.total_added_capital = fold[Len(fold)].total_added_capital
        /\ \A k \in 2..Len(fold) :
               LET s == fold[k]
                   p == fold[k - 1]
                   t == TradeOf(s.Trade)
               IN  /\ ~s.seed
                   /\ s.prev_in = p.portfolio_value
                   /\ s.net_result = NetOf(t)
                   /\ IF t["Buy"] > p.portfolio_value
                      THEN /\ s.added_capital = t["Buy"] - p.portfolio_value
                           /\ s.total_added_capital =
                                  p.total_added_capital + (t["Buy"] - p.portfolio_value)
                      ELSE /\ s.added_capital = 0
                           /\ s.total_added_capital = p.total_added_capital
                   /\ s.portfolio_value =
                          p.portfolio_value - t["Buy"] + NetOf(t) + s.added_capital
        /\ Len(trades) = 1 =>
               /\ totals.v.portfolio_value = trades[1]["Buy"] + NetOf(trades[1])
               /\ totals.v.total_added_capital = 0

\* a step after the seed step injected capital on top of a positive portfolio
C2_CapitalAdded ==
    /\ status = "ok"
    /\ \E k \in 2..Len(fold) : fold[k].added_capital > 0 /\ fold[k].prev_in > 0

\* the files that are no snapshot: no JSON, or JSON whose entries lack fields
Unloadable == {Malformed, NoTradeFile, NoSellFile}

\* C3: when loading a snapshot fails (malformed JSON, or well-formed JSON whose
\* entries lack required fields) the failure is reported as a non-fatal error
\* and the loaded trades of the session and the trade list are left unchanged.
C3_FailedLoadKeepsState ==
    [][(status = "ok" /\ ~uploaded.some /\ uploaded'.some
            /\ uploaded'.v \in Unloadable)
        => /\ status' = "ok"
           /\ message' = "error"
           /\ loaded_trades' = loaded_trades
           /\ trades' = trades]_vars

C5_DivisionGuards ==
    /\ status # "ZeroDivisionError"
    /\ status = "ok" =>
           /\ \A k \in DOMAIN trades :
                  trades[k]["ROI (%)"] =
                      IF trades[k]["Buy"] = 0 THEN Zero
                      ELSE Frac(trades[k]["Profit"] * 100, trades[k]["Buy"])
           /\ totals.v.total_roi =
                  IF totals.v.effective_invested <= 0 THEN Zero
                  ELSE Frac((totals.v.portfolio_value - totals.v.effective_invested) * 100,
                            totals.v.effective_invested)

\* a trade bought at 0 with a profit, and nothing invested against a portfolio value
C5_ZeroBuy ==
    /\ status = "ok"
    /\ \E k \in DOMAIN trades : trades[k]["Buy"] = 0 /\ trades[k]["Profit"] # 0
    /\ totals.v.effective_invested = 0
    /\ totals.v.portfolio_value # 0

RECURSIVE ShownRows(_)
ShownRows(tables) ==
    IF tables = <<>> THEN 0 ELSE Len(Head(tables).rows) + ShownRows(Tail(tables))

OnlyOwnTag ==
    \A k \in DOMAIN Tables : \A j \in DOMAIN Tables[k].rows :
        Tables[k].rows[j]["Color"] = Tables[k].tag

\* C6 (as stated): in the split view every displayed subset contains only trades
\* of the subset's tag, and the sizes of the displayed subsets sum to N.
C6_SplitSumsToN ==
    (status = "ok" /\ mode = "Split by Color") =>
        /\ OnlyOwnTag
        /\ ShownRows(Tables) = Len(trades)

\* C6 (amended): in the split view the displayed subsets are the red and the
\* blue one, each contains only trades of its tag, and their sizes sum to the
\* number of trades tagged red or blue (N less the trades tagged default).
C6_SplitShowsRedAndBlue ==
    (status = "ok" /\ mode = "Split by Color") =>
        /\ OnlyOwnTag
        /\ {Tables[k].tag : k \in DOMAIN Tables} = {"red", "blue"}
        /\ ShownRows(Tables) =
               Len(trades) - Cardinality({k \in DOMAIN trades : trades[k]["Color"] = "default"})

\* the split view of a list with a red trade and a default trade
C6_SplitWithDefault ==
    /\ status = "ok"
    /\ mode = "Split by Color"
    /\ \E k \in DOMAIN trades : trades[k]["Color"] = "default"
    /\ \E k \in DOMAIN trades : trades[k]["Color"] = "red"

\* C7: no operation is fatal: after any sequence of user operations every
\* computation pass completes and produces the headline totals.
C7_EveryPassCompletes == status = "ok" /\ totals.some

SameInputs(a, b) ==
    /\ Len(a) = Len(b)
    /\ \A k \in DOMAIN a :
           /\ a[k]["Trade"] = b[k]["Trade"]
           /\ HasInputs(a[k], b[k]["Buy"], b[k]["Sell"], b[k]["Fee (%)"])

\* C8: two trade lists that agree on Buy, Sell and Fee (%) for every index and
\* differ in their tags give the same per-trade profit, roi and totalReturn and
\* the same totalProfit, totalInvestment, portfolioValue, totalAddedCapital and
\* totalROI.
C8_TagHasNoEffect ==
    [][(status = "ok" /\ status' = "ok" /\ SameInputs(trades, trades'))
        => /\ \A k \in DOMAIN trades :
                  /\ trades'[k]["Profit"] = trades[k]["Profit"]
                  /\ trades'[k]["ROI (%)"] = trades[k]["ROI (%)"]
                  /\ trades'[k]["Total Return"] = trades[k]["Total Return"]
           /\ totals' = totals]_vars

\* a trade with a fee and a profit carries a tag other than default
C8_Tagged ==
    /\ status = "ok"
    /\ \E k \in DOMAIN trades :
           /\ trades[k]["Color"] # "default"
           /\ trades[k]["Fee (%)"] > 0
           /\ trades[k]["Sell"] > 0
    /\ totals.v.total_profit # 0

\* C9: with N >= 1 trades the trade whose buy price is the baseline of
\* effectiveInvested (trades[-1]) is the trade that seeds the fold, so
\* effectiveInvested = seed buy + totalAddedCapital; totalAddedCapital starts
\* at 0 and never decreases, so effectiveInvested >= seed buy.
C9_BaselineIsSeed ==
    status = "ok" =>
        /\ Len(trades) >= 1
        /\ fold[1].seed
        /\ fold[1].Trade = trades[Len(trades)]["Trade"]
        /\ fold[1].total_added_capital = 0
        /\ \A k \in 2..Len(fold) :
               fold[k].total_added_capital >= fold[k - 1].total_added_capital
        /\ totals.v.effective_invested =
               TradeOf(fold[1].Trade)["Buy"] + totals.v.total_added_capital
        /\ totals.v.effective_invested >= TradeOf(fold[1].Trade)["Buy"]

\* two trades bought at different prices, the later one with added capital
C9_TwoBuys ==
    /\ status = "ok"
    /\ Len(trades) = 2
    /\ trades[1]["Buy"] # trades[2]["Buy"]
    /\ totals.v.total_added_capital > 0

=============================================================================
